---------------------------- MODULE Spec2Model ----------------------------
(***************************************************************************)
(* Lifecycle of Pipecat voice-call sessions: PipecatService.start_call /   *)
(* end_call, the pipeline task started by PipelineOrchestrator, the chain  *)
(* task started by PipelineExecutor, SessionFinalizer.finalize, the        *)
(* completion write of CallCompletionService.complete_call and the two     *)
(* partitions of SessionManager.                                           *)
(*                                                                         *)
(* Scheduling is asyncio's: one event loop, a task runs from one real      *)
(* suspension point to the next without interruption.  `ready` holds the   *)
(* tasks that are running or have been woken and must run, in FIFO order,  *)
(* before the loop takes anything else; a request, an I/O completion or a  *)
(* step of the chain is taken only when `ready` is empty.                  *)
(***************************************************************************)
EXTENDS Integers, Sequences, FiniteSets, TLC

\* ------------------------------------------------------------------ bounds
MaxEnds == 2          \* end_call invocations
MaxTime == 2          \* clock ticks (one tick is one hour)
MaxTurns == 1         \* conversation turns a chain produces
MaxAge == 1           \* largest max_age_hours handed to the sweep
MaxLog == 2           \* turns already in the context log of a running chain

\* --------------------------------------------------------------- constants
SecondsPerHour == 3600
SecondsPerMinute == 60
\* prices, in 1/10000000 USD
SttPricePerMinute == 43000       \* STT_PRICES["deepgram"]["nova-2"] = 0.0043
TtsPricePerChar == 150           \* TTS_PRICES["cartesia"]["sonic"] = 0.000015
LlmInputPricePer1K == 25000      \* LLM_PRICES["openai"]["gpt-4o"]["input"] = 0.0025
LlmOutputPricePer1K == 100000    \* LLM_PRICES["openai"]["gpt-4o"]["output"] = 0.01
TokensPer1K == 1000
DailyPricePerMinute == 15000     \* TRANSPORT_PRICES["daily_webrtc"] = 0.0015
WebsocketPricePerMinute == 0     \* TRANSPORT_PRICES["websocket"] = 0.0
\* CallCompletionService._calculate_cost_breakdown: estimates per minute
EstimatedCharsPerMinute == 300
EstimatedInputTokensPerMinute == 240
EstimatedOutputTokensPerMinute == 160

\* Session objects and session ids.  One session is started through
\* start_call and runs a pipeline; the second object is one the registry is
\* handed directly (SpecRegistry).  Sessions share the registry and the loop
\* and nothing else.
Objs == {1, 2}
Ids == {1, 2}
Ends == 1..MaxEnds
NoTime == -1          \* Python None in a numeric field

VARIABLES
    now,                 \* datetime.utcnow(), in ticks
    nobj,                \* PipecatSessionState objects constructed so far
    session,             \* the objects, by object number
    active_sessions,     \* SessionManager.active_sessions: session_id -> object
    completed_sessions,  \* SessionManager.completed_sessions: session_id -> object
    start,               \* per object: position and outcome of start_call
    pipe,                \* per object: the task running run_*_pipeline
    chain,               \* per object: the task running runner.run(task)
    on_done_log,         \* per object: what the executor's done-callback did
    waiters,             \* per object: end_call invocations awaiting the chain task
    ends,                \* end_call invocations
    ready,               \* tasks running or woken, FIFO
    cc_log,              \* per object: the complete_call invocations issued
    mark_result,         \* what the latest SessionManager.mark_completed call did
    cc                   \* one complete_call, with its inputs and what it stored

vars == <<now, nobj, session, active_sessions, completed_sessions, start, pipe,
          chain, on_done_log, waiters, ends, ready, cc_log, mark_result, cc>>

\* ------------------------------------------------------------ data helpers
EmptyDict == [k \in {} |-> 0]

DictSet(d, k, v) == [x \in (DOMAIN d) \cup {k} |-> IF x = k THEN v ELSE d[x]]

DictDel(d, k) == [x \in (DOMAIN d) \ {k} |-> d[x]]

TransportTypes == {"daily_webrtc", "websocket"}

SystemMessage == [role |-> "system", content |-> "prompt"]

Turns == { [role |-> "user", content |-> "hi"],
           [role |-> "assistant", content |-> "hello"],
           [role |-> "assistant", content |-> ""] }

\* the providers PipelineConfig names: STTService, TTSService, LLMService
STTServices == {"deepgram", "azure_speech", "assemblyai"}

TTSServices == {"eleven_labs", "azure_tts", "cartesia"}

LLMServices == {"openai", "anthropic"}

PipelineConfigs == [stt : STTServices, tts : TTSServices, llm : LLMServices]

\* PipelineConfig(): the defaults of STTConfig, TTSConfig and LLMConfig
DefaultConfig == [stt |-> "deepgram", tts |-> "cartesia", llm |-> "openai"]

\* PipecatSessionState(...) as the dataclass defaults leave it
PipecatSessionState(id, transport, t) ==
    [ session_id |-> id,
      transport |-> transport,
      config |-> DefaultConfig,
      daily_room_url |-> FALSE,
      llm_context |-> << >>,
      pipeline_background_task |-> FALSE,
      transcript |-> << >>,
      start_time |-> t,
      end_time |-> NoTime,
      duration_seconds |-> NoTime,
      metrics_saved |-> FALSE ]

Unborn == PipecatSessionState(0, "websocket", 0)

\* `not session.duration_seconds`: None and 0.0 are both falsy
NoDuration(s) == s.duration_seconds = NoTime \/ s.duration_seconds = 0

\* PipecatSessionState.calculate_duration
calculate_durationAgain(s) ==
    [s EXCEPT !.end_time = now,
              !.duration_seconds = (now - s.start_time) * SecondsPerHour]

calculate_duration(s) ==
    LET e == IF s.end_time = NoTime THEN now ELSE s.end_time
    IN  [s EXCEPT !.end_time = e,
                  !.duration_seconds = (e - s.start_time) * SecondsPerHour]

\* SessionManager.get_session: active first, then completed
get_session(id) ==
    IF id \in DOMAIN active_sessions THEN active_sessions[id]
    ELSE IF id \in DOMAIN completed_sessions THEN completed_sessions[id]
    ELSE 0

\* CostCalculator.calculate_call_cost: total_cost_usd for the default
\* PipelineConfig (deepgram nova-2, cartesia, openai gpt-4o).  Durations are
\* whole minutes here, so minutes * price is exact.
calculate_call_cost(transport_type, duration_seconds, total_chars, input_tokens, output_tokens) ==
    LET minutes == duration_seconds \div SecondsPerMinute
        stt_cost == minutes * SttPricePerMinute
        tts_cost == total_chars * TtsPricePerChar
        llm_cost == (input_tokens * LlmInputPricePer1K) \div TokensPer1K
                      + (output_tokens * LlmOutputPricePer1K) \div TokensPer1K
        transport_cost == minutes * (IF transport_type = "daily_webrtc"
                                     THEN DailyPricePerMinute
                                     ELSE WebsocketPricePerMinute)
    IN  stt_cost + tts_cost + llm_cost + transport_cost

\* PipecatService._get_session_metrics
get_session_metrics(s) ==
    [ transcript |-> s.transcript,
      duration_seconds |-> s.duration_seconds,
      \* total_chars_spoken and the token counters are never set: `or 0`
      cost_breakdown |-> calculate_call_cost(
                           s.transport,
                           IF s.duration_seconds = NoTime THEN 0
                           ELSE s.duration_seconds,
                           0, 0, 0),
      status |-> "completed" ]

\* what an end_call that has not returned metrics has returned: None
NoResult ==
    [ transcript |-> << >>, duration_seconds |-> NoTime, cost_breakdown |-> 0,
      status |-> "none" ]

\* ------------------------------------- CallCompletionService.complete_call
\* TranscriptFormatter.format_to_string: "ROLE: content" for each message that
\* has content (joined by blank lines; kept as a sequence here)
format_to_string(transcript) ==
    LET upper(role) == CASE role = "user" -> "USER"
                         [] role = "assistant" -> "ASSISTANT"
                         [] OTHER -> "UNKNOWN"
        kept == SelectSeq(transcript, LAMBDA m : m.content # "")
    IN  [k \in 1..Len(kept) |-> <<upper(kept[k].role), kept[k].content>>]

\* the call-store row and the results-store row when nothing was written
NoCallUpdate ==
    [written |-> FALSE, status |-> "none", duration_seconds |-> NoTime,
     transcript |-> << >>]

NoCallResults ==
    [written |-> FALSE, call_outcome |-> "none", is_emergency |-> FALSE,
     has_cost |-> FALSE, total_cost_usd |-> 0]

\* _update_call_status: CallUpdateData, then db_connector.update_call, which
\* returns False instead of raising
update_call_status(s, env) ==
    IF env.update_ok
    THEN [written |-> TRUE,
          status |-> "completed",
          duration_seconds |-> IF s.duration_seconds \in {NoTime, 0} THEN NoTime
                               ELSE s.duration_seconds,
          transcript |-> IF s.transcript # << >>
                         THEN format_to_string(s.transcript) ELSE << >>]
    ELSE NoCallUpdate

\* _get_default_results
get_default_results ==
    [call_outcome |-> "In-Transit Update", is_emergency |-> FALSE]

\* what process_call_transcript made of the transcript, when it returns
ExtractedResults ==
    [call_outcome |-> "Emergency Escalation", is_emergency |-> TRUE]

\* is the transcript processor invoked by _extract_structured_data?
extraction_invoked(s, env) == s.transcript # << >> /\ env.call_record

\* _extract_structured_data: the default results without a transcript, without
\* the call record, or when the extraction raises
extract_structured_data(s, env) ==
    IF extraction_invoked(s, env) /\ env.extract_ok THEN ExtractedResults
    ELSE get_default_results

\* _calculate_cost_breakdown, "Use actual values or estimates": the counters
\* total_chars_spoken, total_input_tokens and total_output_tokens of the
\* session are never set, so each `or` yields the estimate from the duration
estimated_usageNone(s) ==
    [total_chars |-> 0, input_tokens |-> 0, output_tokens |-> 0]

estimated_usage(s) ==
    LET d == IF s.duration_seconds = NoTime THEN 0 ELSE s.duration_seconds
    IN  [total_chars |-> (d * EstimatedCharsPerMinute) \div SecondsPerMinute,
         input_tokens |->
             (d * EstimatedInputTokensPerMinute) \div SecondsPerMinute,
         output_tokens |->
             (d * EstimatedOutputTokensPerMinute) \div SecondsPerMinute]

\* _calculate_cost_breakdown: calculate_call_cost on the duration and the usage
calculate_cost_breakdown(s) ==
    LET d == IF s.duration_seconds = NoTime THEN 0 ELSE s.duration_seconds
        u == estimated_usage(s)
    IN  calculate_call_cost(s.transport, d, u.total_chars, u.input_tokens,
                            u.output_tokens)

\* _process_and_store_results: extract, cost, merge, upsert, all inside one
\* try whose except only logs
process_and_store_results(s, env) ==
    LET r == extract_structured_data(s, env)
    IN  IF env.cost_ok /\ env.upsert_ok
        THEN [written |-> TRUE, call_outcome |-> r.call_outcome,
              is_emergency |-> r.is_emergency, has_cost |-> TRUE,
              total_cost_usd |-> calculate_cost_breakdown(s)]
        ELSE NoCallResults

\* `if session.duration_seconds and session.duration_seconds > 0`
HasDuration(s) == s.duration_seconds # NoTime /\ s.duration_seconds > 0

\* CallCompletionService.complete_call(session_id, session) with the stores
\* behaving as env says
complete_call(s, env) ==
    IF ~env.found
    THEN [returned |-> FALSE, call_store |-> NoCallUpdate,
          results_store |-> NoCallResults, extraction_invoked |-> FALSE]
    ELSE IF HasDuration(s)
    THEN [returned |-> TRUE, call_store |-> update_call_status(s, env),
          results_store |-> process_and_store_results(s, env),
          extraction_invoked |-> extraction_invoked(s, env)]
    ELSE [returned |-> TRUE, call_store |-> update_call_status(s, env),
          results_store |-> NoCallResults, extraction_invoked |-> FALSE]

\* sessions as complete_call is handed them, after calculate_duration, and
\* behaviours of the stores
CompletedSessions ==
    { calculate_duration([PipecatSessionState(1, tr, 0) EXCEPT
                            !.end_time = h, !.transcript = ts]) :
        tr \in TransportTypes,
        h \in 0..MaxTime,
        ts \in {<< >>} \cup { <<m>> : m \in Turns } }

StoreEnvs ==
    [found : BOOLEAN, update_ok : BOOLEAN, call_record : BOOLEAN,
     extract_ok : BOOLEAN, cost_ok : BOOLEAN, upsert_ok : BOOLEAN]

NoStoreEnv ==
    [found |-> FALSE, update_ok |-> FALSE, call_record |-> FALSE,
     extract_ok |-> FALSE, cost_ok |-> FALSE, upsert_ok |-> FALSE]

\* no complete_call under observation
NoCompleteCall ==
    [pc |-> "none", session |-> Unborn, env |-> NoStoreEnv,
     out |-> complete_call(Unborn, NoStoreEnv)]

\* ------------------------------------------------------------------- Init
Init ==
    /\ now = 0
    /\ nobj = 0
    /\ session = [o \in Objs |-> Unborn]
    /\ active_sessions = EmptyDict
    /\ completed_sessions = EmptyDict
    /\ start = [o \in Objs |-> "unborn"]
    /\ pipe = [o \in Objs |-> "none"]
    /\ chain = [o \in Objs |-> "none"]
    /\ on_done_log = [o \in Objs |-> "none"]
    /\ waiters = [o \in Objs |-> << >>]
    /\ ends = [i \in Ends |-> [pc |-> "idle", sid |-> 0, obj |-> 0, result |-> NoResult]]
    /\ ready = << >>
    /\ cc_log = [o \in Objs |-> << >>]
    /\ mark_result = "none"
    /\ cc = NoCompleteCall

\* ------------------------------------------------------- suspension points
\* Does `await complete_call(...)` give the loop to another task?  Every
\* coroutine below it (find_call_by_session_id, update_call, get_call_by_id,
\* upsert_call_results, process_call_transcript) calls a blocking client and
\* awaits no pending future, so the await returns without suspending.
CompleteCallSuspendsMutant == TRUE

CompleteCallSuspends == FALSE

\* is the pipeline coroutine awaited by start_call, or spawned with create_task?
LaunchAwaitedMutant == TRUE

LaunchAwaited == FALSE

P(o) == <<"pipeline", o>>

E(i) == <<"end_call", i>>

\* the task at the head of `ready` is the one the loop runs next
Runs(t) == ready # << >> /\ Head(ready) = t

\* a task entered by a request, an I/O completion or the chain's own progress
Idle == ready = << >>

\* ------------------------------------------------------------- the clock
Tick ==
    /\ Idle
    /\ now < MaxTime
    /\ now' = now + 1
    /\ UNCHANGED <<nobj, session, active_sessions, completed_sessions, start,
                   pipe, chain, on_done_log, waiters, ends, ready, cc_log,
                   mark_result, cc>>

\* ----------------------------------------------------------- SessionManager
\* SessionManager.create_session: no check of either partition
create_session(o, id, transport) ==
    /\ session' = [session EXCEPT ![o] = PipecatSessionState(id, transport, now)]
    /\ active_sessions' = DictSet(active_sessions, id, o)
    /\ nobj' = o

MemberOfActive(o) == \E id \in DOMAIN active_sessions : active_sessions[id] = o

\* SessionManager.mark_completed on an id that is not active: a warning is
\* logged and the call returns
MarkInactive == "warned_returned"

\* SessionManager.mark_completed, applied to the objects `sess`
mark_completedAll(id, sess) ==
    IF id \notin DOMAIN active_sessions
    THEN [session |-> sess, active |-> active_sessions,
          completed |-> completed_sessions, outcome |-> MarkInactive]
    ELSE [session |-> [o \in Objs |->
                         IF MemberOfActive(o) /\ NoDuration(sess[o])
                         THEN calculate_duration(sess[o]) ELSE sess[o]],
          active |-> EmptyDict,
          completed |-> [x \in (DOMAIN completed_sessions) \cup (DOMAIN active_sessions)
                           |-> IF x \in DOMAIN active_sessions
                               THEN active_sessions[x] ELSE completed_sessions[x]],
          outcome |-> "moved"]

mark_completedUntimed(id, sess) ==
    IF id \notin DOMAIN active_sessions
    THEN [session |-> sess, active |-> active_sessions,
          completed |-> completed_sessions, outcome |-> MarkInactive]
    ELSE [session |-> sess,
          active |-> DictDel(active_sessions, id),
          completed |-> DictSet(completed_sessions, id, active_sessions[id]),
          outcome |-> "moved"]

mark_completedCopied(id, sess) ==
    IF id \notin DOMAIN active_sessions
    THEN [session |-> sess, active |-> active_sessions,
          completed |-> completed_sessions, outcome |-> MarkInactive]
    ELSE [session |-> sess,
          active |-> active_sessions,
          completed |-> DictSet(completed_sessions, id, active_sessions[id]),
          outcome |-> "moved"]

mark_completed(id, sess) ==
    IF id \notin DOMAIN active_sessions
    THEN [session |-> sess, active |-> active_sessions,
          completed |-> completed_sessions, outcome |-> MarkInactive]
    ELSE LET o == active_sessions[id]
             s == IF NoDuration(sess[o]) THEN calculate_duration(sess[o])
                  ELSE sess[o]
         IN  [session |-> [sess EXCEPT ![o] = s],
              active |-> DictDel(active_sessions, id),
              completed |-> DictSet(completed_sessions, id, o),
              outcome |-> "moved"]

\* SessionManager.cleanup_old_completed_sessions(max_age_hours)
SweptIdsInclusive(max_age) ==
    { id \in DOMAIN completed_sessions :
        LET s == session[completed_sessions[id]]
        IN  /\ s.end_time # NoTime
            /\ ((now - s.end_time) * SecondsPerHour) \div SecondsPerHour >= max_age }

SweptIds(max_age) ==
    { id \in DOMAIN completed_sessions :
        LET s == session[completed_sessions[id]]
        IN  /\ s.end_time # NoTime
            /\ ((now - s.end_time) * SecondsPerHour) \div SecondsPerHour > max_age }

cleanup_old_completed_sessions(max_age) ==
    /\ Idle
    /\ SweptIds(max_age) # {}
    /\ completed_sessions' =
         [id \in (DOMAIN completed_sessions) \ SweptIds(max_age)
            |-> completed_sessions[id]]
    /\ UNCHANGED <<now, nobj, session, active_sessions, start, pipe, chain,
                   on_done_log, waiters, ends, ready, cc_log,
                   mark_result, cc>>

\* the registry's own interface, called with an id of the caller's choosing
create_session_direct(id, transport) ==
    /\ Idle
    /\ nobj + 1 \in Objs
    /\ create_session(nobj + 1, id, transport)
    /\ UNCHANGED <<now, completed_sessions, start, pipe, chain, on_done_log,
                   waiters, ends, ready, cc_log,
                   mark_result, cc>>

mark_completed_direct(id) ==
    /\ Idle
    /\ LET m == mark_completed(id, session)
       IN  /\ session' = m.session
           /\ active_sessions' = m.active
           /\ completed_sessions' = m.completed
           /\ mark_result' = m.outcome
    /\ UNCHANGED <<now, nobj, start, pipe, chain, on_done_log, waiters, ends,
                   ready, cc_log, cc>>

\* ---------------------------------------------------------------- start_call
UsedIds == { session[o].session_id : o \in 1..nobj }

\* uuid.uuid4(): an id no session has
FreshId == CHOOSE i \in Ids : i \notin UsedIds /\ \A j \in Ids \ UsedIds : i <= j

\* PipecatService.start_call up to its first suspension point: for Daily the
\* await of create_room, for WebSocket none (create_task, then return)
start_call(transport) ==
    /\ Idle
    /\ nobj + 1 \in Objs
    /\ \A p \in Objs : start[p] = "unborn"
    /\ LET o == nobj + 1
       IN  /\ create_session(o, FreshId, transport)
           /\ IF transport = "daily_webrtc"
              THEN /\ start' = [start EXCEPT ![o] = "provisioning"]
                   /\ pipe' = pipe
              ELSE /\ start' = [start EXCEPT ![o] = "returned"]
                   /\ pipe' = [pipe EXCEPT ![o] = "created"]
    /\ UNCHANGED <<now, completed_sessions, chain, on_done_log, waiters, ends,
                   ready, cc_log,
                   mark_result, cc>>

\* _start_daily_call after create_room: room details, create_task, sleep(2);
\* or create_room raised and the exception leaves start_call
start_daily_call(o, room_ok) ==
    /\ Idle
    /\ start[o] = "provisioning"
    /\ IF room_ok
       THEN /\ session' = [session EXCEPT ![o].daily_room_url = TRUE]
            /\ pipe' = [pipe EXCEPT ![o] = "created"]
            /\ start' = [start EXCEPT ![o] = "sleeping"]
       ELSE /\ start' = [start EXCEPT ![o] = "raised_provisioning"]
            /\ UNCHANGED <<session, pipe>>
    /\ UNCHANGED <<now, nobj, active_sessions, completed_sessions, chain,
                   on_done_log, waiters, ends, ready, cc_log,
                   mark_result, cc>>

\* what a pipeline task that has ended ended with
PipelineRaised(o) ==
    /\ pipe[o] = "done"
    /\ chain[o] \in {"none", "fault"}

\* _start_daily_call after sleep(2): the response, status "initialized"
start_return(o) ==
    /\ Idle
    /\ start[o] = "sleeping"
    /\ pipe[o] # "created"
    /\ LaunchAwaited => pipe[o] = "done"
    /\ start' = [start EXCEPT ![o] =
                   IF LaunchAwaited /\ PipelineRaised(o) THEN "raised_pipeline"
                   ELSE "returned"]
    /\ UNCHANGED <<now, nobj, session, active_sessions, completed_sessions,
                   pipe, chain, on_done_log, waiters, ends, ready, cc_log,
                   mark_result, cc>>

\* ------------------------------------------------------ complete_call, finalize
\* CallCompletionService.complete_call returns True, or False when no call
\* record carries the session id or a step raised; no caller reads the value
CallResults == BOOLEAN

\* one invocation of complete_call, with what it read from the session
CompleteCallRecord(by, s, r) ==
    [by |-> by, result |-> r, transcript |-> s.transcript,
     duration_seconds |-> s.duration_seconds]

\* `if not session.metrics_saved`, in finalize and in end_call
NeedsSaveAlways(s) == TRUE

NeedsSaveNever(s) == FALSE

NeedsSave(s) == ~s.metrics_saved

\* SessionFinalizer._extract_from_context
extract_from_contextAll(s) == [s EXCEPT !.transcript = s.llm_context]

extract_from_context(s) ==
    IF s.llm_context = << >> THEN s
    ELSE [s EXCEPT !.transcript =
            SelectSeq(s.llm_context,
                      LAMBDA m : m.role \in {"user", "assistant"} /\ m.content # "")]

\* SessionFinalizer.finalize up to `if not session.metrics_saved`
finalize_prepareAlways(s) ==
    extract_from_context(IF s.end_time = NoTime THEN calculate_duration(s) ELSE s)

finalize_prepare(s) ==
    LET s1 == IF s.end_time = NoTime THEN calculate_duration(s) ELSE s
    IN  IF s1.transcript = << >> THEN extract_from_context(s1) ELSE s1

\* SessionFinalizer.finalize, run by pipeline task o with `rest` queued behind
\* it, up to the await of complete_call (or to its end when metrics are saved)
finalize(o, rest) ==
    LET s == finalize_prepare(session[o])
    IN  /\ session' = [session EXCEPT ![o] = s]
        /\ IF NeedsSave(s)
           THEN /\ \E r \in CallResults :
                     cc_log' = [cc_log EXCEPT ![o] =
                                  Append(@, CompleteCallRecord("finalize", s, r))]
                /\ pipe' = [pipe EXCEPT ![o] = "complete_call"]
                /\ ready' = IF CompleteCallSuspends THEN rest
                            ELSE <<P(o)>> \o rest
           ELSE /\ cc_log' = cc_log
                /\ pipe' = [pipe EXCEPT ![o] = "done"]
                /\ ready' = rest

\* finalize after complete_call has returned: session.metrics_saved = True
finalize_saved(o) ==
    /\ pipe[o] = "complete_call"
    /\ IF CompleteCallSuspends THEN Idle ELSE Runs(P(o))
    /\ session' = [session EXCEPT ![o].metrics_saved = TRUE]
    /\ pipe' = [pipe EXCEPT ![o] = "done"]
    /\ ready' = IF CompleteCallSuspends THEN ready ELSE Tail(ready)
    /\ UNCHANGED <<now, nobj, active_sessions, completed_sessions, start, chain,
                   on_done_log, waiters, ends, cc_log,
                   mark_result, cc>>

\* --------------------------------------------- run_*_pipeline, PipelineExecutor
\* STTServiceFactory.create_stt_service
create_stt_service(service) ==
    CASE service = "deepgram" -> "created"
      [] service = "azure_speech" -> "NotImplementedError"
      [] service = "assemblyai" -> "NotImplementedError"
      [] OTHER -> "ValueError"

\* TTSServiceFactory.create_tts_service
create_tts_service(service) ==
    CASE service = "eleven_labs" -> "created"
      [] service = "cartesia" -> "created"
      [] service = "azure_tts" -> "NotImplementedError"
      [] OTHER -> "ValueError"

\* LLMServiceFactory.create_llm_service
create_llm_service(service) ==
    CASE service = "openai" -> "created"
      [] service = "anthropic" -> "created"
      [] OTHER -> "ValueError"

\* PipelineBuilder.build_daily / build_pipecat_ws as far as the providers go:
\* the services are created in the order stt, tts, llm and the first error
\* leaves the build
build_providersUnchecked(config) == "assembled"

build_providers(config) ==
    IF create_stt_service(config.stt) # "created"
    THEN create_stt_service(config.stt)
    ELSE IF create_tts_service(config.tts) # "created"
    THEN create_tts_service(config.tts)
    ELSE IF create_llm_service(config.llm) # "created"
    THEN create_llm_service(config.llm)
    ELSE "assembled"

\* PipelineExecutor.run, `session.pipeline_background_task = pipeline_task`,
\* the statement after create_task
store_handleSkipped(s) == s

store_handle(s) == [s EXCEPT !.pipeline_background_task = TRUE]

\* first step of the pipeline task: build, then PipelineExecutor.run up to
\* `await pipeline_task`; a build that raises (an unsupported provider, a
\* missing key or package, the transport) goes to the finally block
run_pipeline(o, build_ok) ==
    /\ Idle
    /\ pipe[o] = "created"
    /\ build_ok => build_providers(session[o].config) = "assembled"
    /\ IF build_ok
       THEN /\ session' = [session EXCEPT
                             ![o] = store_handle(
                                      [@ EXCEPT !.llm_context = <<SystemMessage>>])]
            /\ chain' = [chain EXCEPT ![o] = "running"]
            /\ pipe' = [pipe EXCEPT ![o] = "await_task"]
            /\ UNCHANGED <<ready, cc_log>>
       ELSE /\ finalize(o, ready)
            /\ chain' = chain
    /\ UNCHANGED <<now, nobj, active_sessions, completed_sessions, start,
                   on_done_log, waiters, ends,
                   mark_result, cc>>

\* turns the chains have produced so far, over all sessions
TurnsProduced ==
    LET n(o) == IF session[o].llm_context = << >> THEN 0
                ELSE Len(session[o].llm_context) - 1
    IN  n(1) + n(2)

\* TranscriptCaptureProcessor._capture_user_speech / _capture_bot_response:
\* the message handed to add_transcript_message, stamped with utcnow()
capture_message(m, t) ==
    [role |-> m.role, content |-> m.content, timestamp |-> t]

\* PipecatSessionState.add_transcript_message
add_transcript_messageFront(transcript, message) == <<message>> \o transcript

add_transcript_message(transcript, message) == Append(transcript, message)

\* the chain at work: the context aggregator appends the turn, the capture
\* processor appends it to session.transcript when it saw non-empty text
chain_turn(o, m, captured) ==
    /\ Idle
    /\ chain[o] \in {"running", "cancelling"}
    /\ TurnsProduced < MaxTurns
    /\ session' = [session EXCEPT
                     ![o].llm_context = Append(@, m),
                     ![o].transcript =
                        IF captured /\ m.content # ""
                        THEN add_transcript_message(@, capture_message(m, now))
                        ELSE @]
    /\ UNCHANGED <<now, nobj, active_sessions, completed_sessions, start, pipe,
                   chain, on_done_log, waiters, ends, ready, cc_log,
                   mark_result, cc>>

\* PipelineExecutor.run.on_done: fut.result() inside `except Exception`
on_done(outcome) ==
    CASE outcome = "ok" -> "silent"
      [] outcome = "fault" -> "pipeline_failed"
      [] outcome = "cancelled" -> "cancelled_error_escaped"

ChainOutcomes(o) ==
    IF chain[o] = "cancelling" THEN {"ok", "fault", "cancelled"}
    ELSE {"ok", "fault"}

\* the chain task ends; its done-callbacks run in the order they were added:
\* on_done, the pipeline task's wakeup, then each end_call awaiting it
chain_end(o, outcome) ==
    /\ Idle
    /\ chain[o] \in {"running", "cancelling"}
    /\ outcome \in ChainOutcomes(o)
    /\ chain' = [chain EXCEPT ![o] = outcome]
    /\ on_done_log' = [on_done_log EXCEPT ![o] = on_done(outcome)]
    /\ ready' = <<P(o)>> \o [k \in 1..Len(waiters[o]) |-> E(waiters[o][k])]
    /\ waiters' = [waiters EXCEPT ![o] = << >>]
    /\ UNCHANGED <<now, nobj, session, active_sessions, completed_sessions,
                   start, pipe, ends, cc_log,
                   mark_result, cc>>

\* the pipeline task resumes from `await pipeline_task` into the finally block
pipeline_wake(o) ==
    /\ Runs(P(o))
    /\ pipe[o] = "await_task"
    /\ finalize(o, Tail(ready))
    /\ UNCHANGED <<now, nobj, active_sessions, completed_sessions, start, chain,
                   on_done_log, waiters, ends,
                   mark_result, cc>>

\* ------------------------------------------------------------------ end_call
\* end_call when get_session finds nothing: a warning and `return None`
NotFoundOutcomeRaises == "raised"

NotFoundOutcome == "not_found"

\* asyncio.Task.done() of session.pipeline_background_task
TaskDoneAlways(o) == TRUE

TaskDone(o) == chain[o] \notin {"running", "cancelling"}

\* _cancel_pipeline_task's try/except around the await, by the chain task's
\* outcome: CancelledError and Exception are both caught and logged
cancel_awaitUncaught(outcome) ==
    IF outcome = "cancelled" THEN "raises" ELSE "proceeds"

cancel_await(outcome) ==
    CASE outcome = "ok" -> "proceeds"
      [] outcome = "cancelled" -> "proceeds"
      [] outcome = "fault" -> "proceeds"

\* end_call after `self.session_manager.mark_completed(session_id)`: the call
\* returns None whether it moved the session or only warned, and end_call goes
\* on to return the metrics
end_after_markStrict(outcome) ==
    IF outcome = MarkInactive THEN "raised" ELSE "returned"

end_after_mark(outcome) == "returned"

\* end_call from `# Calculate duration` on, run by invocation i for object o
\* registered as id, with `rest` queued behind it: up to the await of
\* complete_call, or else through mark_completed to the return
end_call_finish(i, o, id, rest) ==
    IF NoDuration(session[o]) /\ NeedsSave(session[o])
    THEN /\ session' = [session EXCEPT ![o] = calculate_duration(@)]
         /\ \E r \in CallResults :
              cc_log' = [cc_log EXCEPT ![o] =
                           Append(@, CompleteCallRecord(
                                       "end_call", calculate_duration(session[o]), r))]
         /\ ends' = [ends EXCEPT ![i] = [pc |-> "complete_call", sid |-> id, obj |-> o,
                                      result |-> NoResult]]
         /\ ready' = IF CompleteCallSuspends THEN rest ELSE <<E(i)>> \o rest
         /\ UNCHANGED <<active_sessions, completed_sessions, mark_result>>
    ELSE LET s == IF NoDuration(session[o])
                  THEN [session EXCEPT ![o] = calculate_duration(@)]
                  ELSE session
             m == mark_completed(id, s)
         IN  /\ session' = m.session
             /\ active_sessions' = m.active
             /\ completed_sessions' = m.completed
             /\ ends' = [ends EXCEPT ![i] =
                           [pc |-> end_after_mark(m.outcome), sid |-> id, obj |-> o,
                            result |-> get_session_metrics(m.session[o])]]
             /\ ready' = rest
             /\ cc_log' = cc_log
             /\ mark_result' = m.outcome

\* PipecatService.end_call(id) up to its first suspension point
end_call(i, id) ==
    /\ Idle
    /\ ends[i].pc = "idle"
    /\ \A j \in 1..(i - 1) : ends[j].pc # "idle"
    /\ IF get_session(id) = 0
       THEN /\ ends' = [ends EXCEPT ![i] = [pc |-> NotFoundOutcome, sid |-> id,
                                            obj |-> 0, result |-> NoResult]]
            /\ UNCHANGED <<session, active_sessions, completed_sessions, chain,
                           waiters, ready, cc_log, mark_result>>
       ELSE IF id \in DOMAIN completed_sessions
       THEN /\ ends' = [ends EXCEPT ![i] =
                         [pc |-> "returned", sid |-> id,
                          obj |-> completed_sessions[id],
                          result |-> get_session_metrics(
                                       session[completed_sessions[id]])]]
            /\ UNCHANGED <<session, active_sessions, completed_sessions, chain,
                           waiters, ready, cc_log, mark_result>>
       ELSE LET o == get_session(id)
            IN  IF session[o].pipeline_background_task /\ ~TaskDone(o)
                THEN \* _cancel_pipeline_task: cancel(), then await the task
                     /\ chain' = [chain EXCEPT ![o] = "cancelling"]
                     /\ waiters' = [waiters EXCEPT ![o] = Append(@, i)]
                     /\ ends' = [ends EXCEPT ![i] =
                                   [pc |-> "await_cancel", sid |-> id, obj |-> o,
                                    result |-> NoResult]]
                     /\ UNCHANGED <<session, active_sessions, completed_sessions,
                                    ready, cc_log, mark_result>>
                ELSE /\ end_call_finish(i, o, id, ready)
                     /\ UNCHANGED <<chain, waiters>>
    /\ UNCHANGED <<now, nobj, start, pipe, on_done_log, cc>>

\* end_call resumes from `await session.pipeline_background_task`; both except
\* clauses only log
end_call_wake(i) ==
    /\ Runs(E(i))
    /\ ends[i].pc = "await_cancel"
    /\ IF cancel_await(chain[ends[i].obj]) = "proceeds"
       THEN end_call_finish(i, ends[i].obj, ends[i].sid, Tail(ready))
       ELSE /\ ends' = [ends EXCEPT ![i].pc = "raised"]
            /\ ready' = Tail(ready)
            /\ UNCHANGED <<session, active_sessions, completed_sessions, cc_log,
                           mark_result>>
    /\ UNCHANGED <<now, nobj, start, pipe, chain, on_done_log, waiters, cc>>

\* end_call after complete_call has returned: metrics_saved = True,
\* mark_completed, return the metrics
end_call_saved(i) ==
    /\ ends[i].pc = "complete_call"
    /\ IF CompleteCallSuspends THEN Idle ELSE Runs(E(i))
    /\ LET o == ends[i].obj
           m == mark_completed(ends[i].sid,
                               [session EXCEPT ![o].metrics_saved = TRUE])
       IN  /\ session' = m.session
           /\ active_sessions' = m.active
           /\ completed_sessions' = m.completed
           /\ ends' = [ends EXCEPT
                         ![i].pc = end_after_mark(m.outcome),
                         ![i].result = get_session_metrics(m.session[o])]
           /\ mark_result' = m.outcome
    /\ ready' = IF CompleteCallSuspends THEN ready ELSE Tail(ready)
    /\ UNCHANGED <<now, nobj, start, pipe, chain, on_done_log, waiters, cc_log, cc>>

\* one call of complete_call, from the call to the return
complete_call_run ==
    /\ cc.pc = "called"
    /\ cc' = [cc EXCEPT !.pc = "returned",
                        !.out = complete_call(cc.session, cc.env)]
    /\ UNCHANGED <<now, nobj, session, active_sessions, completed_sessions,
                   start, pipe, chain, on_done_log, waiters, ends, ready,
                   cc_log, mark_result>>

Next ==
    \/ Tick
    \/ \E t \in TransportTypes : start_call(t)
    \/ \E o \in Objs, ok \in BOOLEAN : start_daily_call(o, ok)
    \/ \E o \in Objs : start_return(o)
    \/ \E a \in 0..MaxAge : cleanup_old_completed_sessions(a)
    \/ \E o \in Objs, ok \in BOOLEAN : run_pipeline(o, ok)
    \/ \E o \in Objs, m \in Turns, c \in BOOLEAN : chain_turn(o, m, c)
    \/ \E o \in Objs, r \in {"ok", "fault", "cancelled"} : chain_end(o, r)
    \/ \E o \in Objs : pipeline_wake(o)
    \/ \E o \in Objs : finalize_saved(o)
    \/ \E i \in Ends, id \in Ids : end_call(i, id)
    \/ \E i \in Ends : end_call_wake(i)
    \/ \E i \in Ends : end_call_saved(i)

Spec == Init /\ [][Next]_vars

\* Spec with what asyncio and the clock guarantee: time passes, and the loop
\* runs every task that is ready.  Requests, the chain's progress and
\* cleanup_old_completed_sessions, which no code path calls, are not forced.
LoopFairness ==
    /\ WF_vars(Tick)
    /\ \A o \in Objs :
         /\ WF_vars(\E ok \in BOOLEAN : start_daily_call(o, ok))
         /\ WF_vars(start_return(o))
         /\ WF_vars(\E ok \in BOOLEAN : run_pipeline(o, ok))
         /\ WF_vars(pipeline_wake(o))
         /\ WF_vars(finalize_saved(o))
    /\ \A i \in Ends :
         /\ WF_vars(end_call_wake(i))
         /\ WF_vars(end_call_saved(i))

SpecLive == Spec /\ LoopFairness

\* the orchestrator together with direct callers of the registry
NextRegistry ==
    \/ Next
    \/ \E id \in Ids : create_session_direct(id, "websocket")
    \/ \E id \in Ids : mark_completed_direct(id)

\* the state after MaxTime - 1 ticks and MaxEnds - 1 calls of end_call with an
\* id no session has: one tick and one end_call are left
InitRegistry ==
    /\ now = MaxTime - 1
    /\ nobj = 0
    /\ session = [o \in Objs |-> Unborn]
    /\ active_sessions = EmptyDict
    /\ completed_sessions = EmptyDict
    /\ start = [o \in Objs |-> "unborn"]
    /\ pipe = [o \in Objs |-> "none"]
    /\ chain = [o \in Objs |-> "none"]
    /\ on_done_log = [o \in Objs |-> "none"]
    /\ waiters = [o \in Objs |-> << >>]
    /\ ends = [i \in Ends |-> IF i < MaxEnds
                              THEN [pc |-> "not_found", sid |-> 1, obj |-> 0, result |-> NoResult]
                              ELSE [pc |-> "idle", sid |-> 0, obj |-> 0, result |-> NoResult]]
    /\ ready = << >>
    /\ cc_log = [o \in Objs |-> << >>]
    /\ mark_result = "none"
    /\ cc = NoCompleteCall

SpecRegistry == InitRegistry /\ [][NextRegistry]_vars

\* complete_call on its own: every session it can be handed, every behaviour
\* of the stores
InitCompletion ==
    /\ now = 0
    /\ nobj = 0
    /\ session = [o \in Objs |-> Unborn]
    /\ active_sessions = EmptyDict
    /\ completed_sessions = EmptyDict
    /\ start = [o \in Objs |-> "unborn"]
    /\ pipe = [o \in Objs |-> "none"]
    /\ chain = [o \in Objs |-> "none"]
    /\ on_done_log = [o \in Objs |-> "none"]
    /\ waiters = [o \in Objs |-> << >>]
    /\ ends = [i \in Ends |-> [pc |-> "idle", sid |-> 0, obj |-> 0, result |-> NoResult]]
    /\ ready = << >>
    /\ cc_log = [o \in Objs |-> << >>]
    /\ mark_result = "none"
    /\ \E s \in CompletedSessions, env \in StoreEnvs :
         cc = [pc |-> "called", session |-> s, env |-> env,
               out |-> NoCompleteCall.out]

NextCompletion == complete_call_run

SpecCompletion == InitCompletion /\ [][NextCompletion]_vars

\* complete_call on calls of a few minutes: durations below the clock's tick
EstimationMinutes == {0, 1, 2, 10, 60}

EstimationSessions ==
    { [PipecatSessionState(1, tr, 0) EXCEPT
         !.end_time = (m * SecondsPerMinute) \div SecondsPerHour,
         !.duration_seconds = m * SecondsPerMinute,
         !.transcript = ts] :
        tr \in TransportTypes,
        m \in EstimationMinutes,
        ts \in {<< >>} \cup { <<x>> : x \in Turns } }

InitEstimation ==
    /\ now = 0
    /\ nobj = 0
    /\ session = [o \in Objs |-> Unborn]
    /\ active_sessions = EmptyDict
    /\ completed_sessions = EmptyDict
    /\ start = [o \in Objs |-> "unborn"]
    /\ pipe = [o \in Objs |-> "none"]
    /\ chain = [o \in Objs |-> "none"]
    /\ on_done_log = [o \in Objs |-> "none"]
    /\ waiters = [o \in Objs |-> << >>]
    /\ ends = [i \in Ends |-> [pc |-> "idle", sid |-> 0, obj |-> 0, result |-> NoResult]]
    /\ ready = << >>
    /\ cc_log = [o \in Objs |-> << >>]
    /\ mark_result = "none"
    /\ \E s \in EstimationSessions, env \in StoreEnvs :
         cc = [pc |-> "called", session |-> s, env |-> env,
               out |-> NoCompleteCall.out]

NextEstimation == complete_call_run

SpecEstimation == InitEstimation /\ [][NextEstimation]_vars

\* context logs of a chain that has been running for a while
TurnLogs == UNION { [1..n -> Turns] : n \in 0..MaxLog }

\* what the capture processors stored, at time t, of the turns of `log`: the
\* turns mask selects, with non-empty text
CapturedOf(log, mask, t) ==
    LET idx == SelectSeq([k \in 1..Len(log) |-> k],
                         LAMBDA k : mask[k] /\ log[k].content # "")
    IN  [j \in 1..Len(idx) |-> capture_message(log[idx[j]], t)]

\* a frame the capture processor has stored and the context aggregator, which
\* sits behind it in the pipeline, has not yet added to the context
PendingCaptures ==
    {<< >>} \cup { <<capture_message(m, 0)>> : m \in {x \in Turns : x.content # ""} }

\* a session whose chain is running: started, pipeline built, the pipeline
\* task awaiting the chain task, some turns into the conversation
InitTranscript ==
    /\ now = 0
    /\ nobj = 1
    /\ \E tr \in TransportTypes, log \in TurnLogs, pending \in PendingCaptures :
         \E mask \in [1..Len(log) -> BOOLEAN] :
            session = [o \in Objs |->
                         IF o = 1
                         THEN [PipecatSessionState(1, tr, 0) EXCEPT
                                 !.daily_room_url = (tr = "daily_webrtc"),
                                 !.llm_context = <<SystemMessage>> \o log,
                                 !.pipeline_background_task = TRUE,
                                 !.transcript = CapturedOf(log, mask, 0) \o pending]
                         ELSE Unborn]
    /\ active_sessions = DictSet(EmptyDict, 1, 1)
    /\ completed_sessions = EmptyDict
    /\ start = [o \in Objs |-> IF o = 1 THEN "returned" ELSE "unborn"]
    /\ pipe = [o \in Objs |-> IF o = 1 THEN "await_task" ELSE "none"]
    /\ chain = [o \in Objs |-> IF o = 1 THEN "running" ELSE "none"]
    /\ on_done_log = [o \in Objs |-> "none"]
    /\ waiters = [o \in Objs |-> << >>]
    /\ ends = [i \in Ends |-> [pc |-> "idle", sid |-> 0, obj |-> 0, result |-> NoResult]]
    /\ ready = << >>
    /\ cc_log = [o \in Objs |-> << >>]
    /\ mark_result = "none"
    /\ cc = NoCompleteCall

NextTranscript ==
    \/ \E o \in Objs, m \in Turns, c \in BOOLEAN : chain_turn(o, m, c)
    \/ \E o \in Objs, r \in {"ok", "fault", "cancelled"} : chain_end(o, r)
    \/ \E o \in Objs : pipeline_wake(o)
    \/ \E o \in Objs : finalize_saved(o)
    \/ \E i \in Ends, id \in Ids : end_call(i, id)
    \/ \E i \in Ends : end_call_wake(i)

SpecTranscript == InitTranscript /\ [][NextTranscript]_vars

\* a session start_call has created with a configuration of the caller's
\* choosing, its pipeline task spawned and not yet run
InitAssembly ==
    /\ now = 0
    /\ nobj = 1
    /\ \E tr \in TransportTypes, cfg \in PipelineConfigs :
         /\ session = [o \in Objs |->
                         IF o = 1
                         THEN [PipecatSessionState(1, tr, 0) EXCEPT
                                 !.config = cfg,
                                 !.daily_room_url = (tr = "daily_webrtc")]
                         ELSE Unborn]
         /\ start = [o \in Objs |->
                       IF o # 1 THEN "unborn"
                       ELSE IF tr = "daily_webrtc" THEN "sleeping" ELSE "returned"]
    /\ active_sessions = DictSet(EmptyDict, 1, 1)
    /\ completed_sessions = EmptyDict
    /\ pipe = [o \in Objs |-> IF o = 1 THEN "created" ELSE "none"]
    /\ chain = [o \in Objs |-> "none"]
    /\ on_done_log = [o \in Objs |-> "none"]
    /\ waiters = [o \in Objs |-> << >>]
    /\ ends = [i \in Ends |-> [pc |-> "idle", sid |-> 0, obj |-> 0, result |-> NoResult]]
    /\ ready = << >>
    /\ cc_log = [o \in Objs |-> << >>]
    /\ mark_result = "none"
    /\ cc = NoCompleteCall

NextAssembly ==
    \/ \E o \in Objs, ok \in BOOLEAN : run_pipeline(o, ok)
    \/ \E o \in Objs : start_return(o)
    \/ \E o \in Objs, m \in Turns, c \in BOOLEAN : chain_turn(o, m, c)
    \/ \E o \in Objs, r \in {"ok", "fault", "cancelled"} : chain_end(o, r)
    \/ \E o \in Objs : pipeline_wake(o)
    \/ \E o \in Objs : finalize_saved(o)

SpecAssembly == InitAssembly /\ [][NextAssembly]_vars


\* ===================================================================== claims
Created == 1..nobj

Registered(id) == id \in DOMAIN active_sessions \/ id \in DOMAIN completed_sessions

ChainExited(o) == chain[o] \in {"ok", "fault", "cancelled"}

\* an end_call invocation has returned the metrics of object o
EndReturnedFor(o) == \E i \in Ends : ends[i].pc = "returned" /\ ends[i].obj = o

\* the executions of the completion workflow on object o that are between
\* their metrics_saved check and their metrics_saved = True
InCompletion(o) ==
    (IF pipe[o] = "complete_call" THEN {P(o)} ELSE {})
      \cup { E(i) : i \in { j \in Ends : ends[j].pc = "complete_call"
                                            /\ ends[j].obj = o } }

\* C1: when end_call and the pipeline task's finalize both run for a session,
\* exactly one complete_call is issued for it; no session ever gets a second
\* complete_call; metrics_saved is true only after that one write and, once
\* true, stays true.
C1_ExactlyOnePersistence ==
    /\ [](\A o \in Objs :
            /\ Len(cc_log[o]) <= 1
            /\ session[o].metrics_saved => Len(cc_log[o]) = 1
            /\ (pipe[o] = "done" /\ EndReturnedFor(o))
                 => (Len(cc_log[o]) = 1 /\ session[o].metrics_saved))
    /\ [][\A o \in Objs : session[o].metrics_saved => session'[o].metrics_saved]_vars

C1_Witness ==
    \E o \in Objs :
        /\ chain[o] = "ok"
        /\ pipe[o] = "done"
        /\ EndReturnedFor(o)
        /\ Len(cc_log[o]) = 1
        /\ session[o].metrics_saved

\* C2: at most one execution of the completion workflow of a session is between
\* its metrics_saved check and its metrics_saved = True.
C2_CompletionSerialized ==
    \A o \in Objs : Cardinality(InCompletion(o)) <= 1

C2_Witness ==
    \E o \in Objs, i \in Ends :
        /\ pipe[o] = "complete_call"
        /\ ends[i].pc = "await_cancel"
        /\ ends[i].obj = o

\* C3: every session that has been created is registered under its id in
\* exactly one of active_sessions and completed_sessions.
C3_ExactlyOnePartition ==
    \A o \in Created :
        (session[o].session_id \in DOMAIN active_sessions)
          # (session[o].session_id \in DOMAIN completed_sessions)

\* C4: a start_call whose room creation raised leaves the session's id in
\* neither partition.
C4_FailedProvisioningUnregistered ==
    \A o \in Created :
        start[o] = "raised_provisioning" => ~Registered(session[o].session_id)

\* C5: once the chain has exited and finalize has run to its end, the session
\* has left active_sessions, with no end_call needed.
C5_ChainExitCompletesSession ==
    \A o \in Created :
        (ChainExited(o) /\ pipe[o] = "done")
          => session[o].session_id \notin DOMAIN active_sessions

\* C6: whichever trigger has run to its end for a session - the pipeline task's
\* finalize after a natural end, a fault or a cancellation, or an end_call that
\* returned its metrics - exactly one complete_call has been issued for it, its
\* end_time is frozen and metrics_saved is true.
C6_OneCompletionPerSession ==
    \A o \in Created :
        (pipe[o] = "done" \/ EndReturnedFor(o))
          => /\ Len(cc_log[o]) = 1
             /\ session[o].metrics_saved
             /\ session[o].end_time # NoTime

C6_Witness ==
    \E o \in Created :
        /\ chain[o] = "fault"
        /\ pipe[o] = "done"
        /\ EndReturnedFor(o)
        /\ Len(cc_log[o]) = 1

\* end_call invocation i goes on, in this step, to read the session's duration,
\* transcript and metrics_saved
EndReads(i) ==
    /\ ends[i].pc \in {"idle", "await_cancel"}
    /\ ends'[i].pc \in {"complete_call", "returned"}

C8_WritesAfterChainExit ==
    \A o \in Created :
        cc_log[o] # << >>
          => \/ ChainExited(o)
             \/ pipe[o] = "done"
             \/ start[o] = "raised_provisioning"

\* C9: cancelling through end_call reaches the chain task, the end_call's await
\* on it ends when the task does, no end_call raises, and a cancelled chain is
\* not logged as a failed pipeline.
C9_CancellationExpected ==
    /\ \A i \in Ends :
         /\ ends[i].pc # "raised"
         /\ ends[i].pc = "await_cancel"
              => \/ chain[ends[i].obj] = "cancelling"
                 \/ \E k \in 1..Len(ready) : ready[k] = E(i)
    /\ \A o \in Objs :
         chain[o] = "cancelled" => on_done_log[o] # "pipeline_failed"

C9_Witness ==
    \E i \in Ends :
        /\ ends[i].pc = "returned"
        /\ ends[i].obj \in Created
        /\ chain[ends[i].obj] = "cancelled"
        /\ on_done_log[ends[i].obj] = "cancelled_error_escaped"

\* C10: after a chain fault finalize has run by the time the loop is idle again
\* (end_time frozen, metrics saved, and what finalize wrote is the transcript
\* the chain had captured); start_call never raises because of the pipeline,
\* and a start_call that has returned stays returned.
C10_FaultFinalizedNotRaised ==
    /\ [](\A o \in Objs :
            /\ start[o] # "raised_pipeline"
            /\ (chain[o] = "fault" /\ Idle)
                 => /\ pipe[o] = "done"
                    /\ session[o].end_time # NoTime
                    /\ session[o].metrics_saved
                    /\ (cc_log[o] # << >> /\ cc_log[o][1].by = "finalize")
                         => cc_log[o][1].transcript = session[o].transcript)
    /\ [][\A o \in Objs : start[o] = "returned" => start'[o] = "returned"]_vars

C10_Witness ==
    \E o \in Objs :
        /\ chain[o] = "fault"
        /\ pipe[o] = "done"
        /\ start[o] = "returned"
        /\ cc_log[o] # << >>
        /\ cc_log[o][1].by = "finalize"
        /\ cc_log[o][1].transcript # << >>

\* C11: every end_call that returns metrics for a session returns what the
\* earlier ones returned for it: the same transcript, duration_seconds,
\* cost_breakdown and status.
C11_CompletedEndIdempotent ==
    \A i, j \in Ends :
        (ends[i].pc = "returned" /\ ends[j].pc = "returned"
           /\ ends[i].obj = ends[j].obj)
          => ends[i].result = ends[j].result

\* end_call invocation i returns in this step, having been called with an id
\* that no partition holds
EndsUnknown(i) ==
    /\ ends[i].pc = "idle"
    /\ ends'[i].pc # "idle"
    /\ ~Registered(ends'[i].sid)

Creates(id) == nobj' = nobj + 1 /\ session'[nobj'].session_id = id

\* C13: create_session with an id that either partition holds creates nothing:
\* it fails and leaves the session registered under the id and both partitions
\* as they were.
C13_DuplicateCreateRejected ==
    [][\A id \in Ids :
         (Registered(id) /\ Creates(id))
           => UNCHANGED <<session, active_sessions, completed_sessions>>]_vars

\* C14: a mark_completed on an id that is not active does not return normally:
\* what the latest call did is a move, or else a NotActiveError.
C14_InactiveMarkFails ==
    mark_result \in {"none", "moved", "NotActiveError"}

\* C15: an id that is in completed_sessions is not in active_sessions after any
\* step.
C15_CompletedNeverActiveAgain ==
    [][\A id \in Ids :
         id \in DOMAIN completed_sessions
           => id \notin DOMAIN active_sessions']_vars

\* C16: when the complete_call of a session's completion has failed (returned
\* False: no call record, or a step raised) and the completion has gone on to
\* set metrics_saved, the session is no longer in active_sessions.
C16_FailedWriteStillCompleted ==
    \A o \in Created :
        (cc_log[o] # << >> /\ ~cc_log[o][1].result /\ session[o].metrics_saved)
          => session[o].session_id \notin DOMAIN active_sessions

\* the complete_call under observation has returned after finding the call
\* record, with both stores accepting writes
CompletionStored ==
    /\ cc.pc = "returned"
    /\ cc.env.found
    /\ cc.env.update_ok
    /\ cc.env.upsert_ok

\* C17: when structured extraction or cost computation fails during a
\* completion, the status/duration update is still written to the call-store
\* and a results record is still upserted to the results-store (the default
\* one when it was the extraction that failed); never no record at all
C17_FailureStillStoresRecord ==
    /\ CompletionStored
    /\ HasDuration(cc.session)
    /\ \/ ~cc.env.cost_ok
       \/ extraction_invoked(cc.session, cc.env) /\ ~cc.env.extract_ok
    => /\ cc.out.call_store.written
       /\ cc.out.call_store.status = "completed"
       /\ cc.out.results_store.written
       /\ ~cc.env.extract_ok =>
            cc.out.results_store.call_outcome = get_default_results.call_outcome

\* C18: a completion of a session whose duration is 0 or whose transcript is
\* empty does not invoke the extraction and upserts the default record
\* (In-Transit Update, not an emergency), with a cost total of 0 when the
\* duration is 0
C18_ZeroDurationDefaultRecord ==
    /\ CompletionStored
    /\ cc.env.cost_ok
    /\ cc.session.duration_seconds = 0 \/ cc.session.transcript = << >>
    => /\ ~cc.out.extraction_invoked
       /\ cc.out.results_store.written
       /\ cc.out.results_store.call_outcome = get_default_results.call_outcome
       /\ cc.out.results_store.is_emergency = get_default_results.is_emergency
       /\ cc.session.duration_seconds = 0 =>
            cc.out.results_store.total_cost_usd = 0

\* C19: start_call returns once the room is provisioned and the pipeline task
\* is launched, whatever the chain does afterwards: a websocket start_call has
\* returned in the step that created the task, and a Daily one past its sleep
\* can return as soon as the loop is idle, without the pipeline task being done
C19_StartReturnsWithoutChainExit ==
    \A o \in Objs :
        /\ (session[o].transport = "websocket" /\ start[o] # "unborn")
             => start[o] = "returned"
        /\ (start[o] = "sleeping" /\ pipe[o] # "created" /\ Idle)
             => ENABLED start_return(o)

C19_Witness ==
    \E o \in Objs :
        /\ session[o].transport = "daily_webrtc"
        /\ start[o] = "returned"
        /\ chain[o] = "running"
        /\ pipe[o] = "await_task"

\* the pipeline task of o ended before a chain was ever launched: the build
\* of the pipeline raised
AssemblyFailed(o) ==
    /\ pipe[o] \in {"complete_call", "done"}
    /\ chain[o] = "none"

\* C20: start_call reports "initialized" only when the pipeline was assembled
\* and the chain launched: a session whose pipeline assembly failed is never
\* reported as initialized
C20_InitializedOnlyAfterLaunch ==
    \A o \in Objs : AssemblyFailed(o) => start[o] # "returned"

\* C22: duration_seconds and end_time are set at most once per session: once
\* the duration has a value, no step (calculate_duration in finalize, in
\* end_call or in mark_completed) changes it or end_time
C22_DurationSetOnce ==
    [][\A o \in Objs :
         session[o].duration_seconds # NoTime
           => /\ session'[o].duration_seconds = session[o].duration_seconds
              /\ session'[o].end_time = session[o].end_time]_vars

\* finalize set a falsy duration (0), the clock moved on, and an end_call
\* went through calculate_duration and mark_completed again
C22_Witness ==
    \E i \in Ends :
        /\ ends[i].pc = "returned"
        /\ ends[i].obj \in Objs
        /\ session[ends[i].obj].duration_seconds = 0
        /\ session[ends[i].obj].end_time < now
        /\ ends[i].sid \in DOMAIN completed_sessions
        /\ cc_log[ends[i].obj] # << >>
        /\ cc_log[ends[i].obj][1].by = "finalize"

\* a is an initial segment of b
IsPrefix(a, b) == Len(a) <= Len(b) /\ SubSeq(b, 1, Len(a)) = a

\* the captured entries of a transcript carry non-decreasing timestamps
StampsOrdered(transcript) ==
    \A j, k \in 1..Len(transcript) :
        /\ j < k
        /\ "timestamp" \in DOMAIN transcript[j]
        /\ "timestamp" \in DOMAIN transcript[k]
        => transcript[j].timestamp <= transcript[k].timestamp

\* C23: a session's transcript is append-only and in arrival order: every
\* step leaves the previous transcript as a prefix of the new one (nothing is
\* removed, replaced or reordered) and the captured entries stay in the order
\* of their timestamps
C23_TranscriptAppendOnly ==
    [][\A o \in Objs :
         /\ IsPrefix(session[o].transcript, session'[o].transcript)
         /\ StampsOrdered(session'[o].transcript)]_vars

\* a capture was appended behind an earlier one and finalize has passed over
\* the transcript
C23_Witness ==
    \E o \in Objs :
        /\ Len(session[o].transcript) = 2
        /\ Len(session[o].llm_context) = 2
        /\ session[o].transcript[1] # session[o].transcript[2]
        /\ session[o].transcript[2].content = session[o].llm_context[2].content
        /\ pipe[o] = "done"
        /\ session[o].metrics_saved

\* the step in which the pipeline task of o enters finalize
FinalizeStep(o) ==
    /\ pipe[o] \in {"created", "await_task"}
    /\ pipe'[o] \in {"complete_call", "done"}

\* the user and assistant messages of a context log that have content, in
\* the order of the log
RECURSIVE ContextTurns(_)
ContextTurns(log) ==
    IF log = << >> THEN << >>
    ELSE LET h == Head(log)
         IN  (IF h.role \in {"user", "assistant"} /\ h.content # ""
              THEN <<h>> ELSE << >>) \o ContextTurns(Tail(log))

\* C24: when the transcript the capture processors filled is non-empty at
\* finalize, finalize leaves it as it is and does not read the context log,
\* whatever turns the context log holds; the completion write gets that
\* transcript
C24_CapturedTranscriptWins ==
    [][\A o \in Objs :
         FinalizeStep(o) /\ session[o].transcript # << >>
           => /\ session'[o].transcript = session[o].transcript
              /\ cc_log'[o] # cc_log[o]
                   => cc_log'[o][Len(cc_log'[o])].transcript = session[o].transcript]_vars

\* finalize has run on a captured transcript while the context log held more
\* turns than were captured
C24_Witness ==
    \E o \in Objs :
        /\ pipe[o] = "done"
        /\ cc_log[o] # << >>
        /\ cc_log[o][1].by = "finalize"
        /\ session[o].transcript # << >>
        /\ "timestamp" \in DOMAIN session[o].transcript[1]
        /\ Len(ContextTurns(session[o].llm_context)) > Len(session[o].transcript)

\* C25: when the transcript is empty at finalize, the recovered transcript is
\* exactly the user and assistant messages with content of the context log,
\* in the log's order; the seeded system message is never in it
C25_RecoveredFromContext ==
    [][\A o \in Objs :
         FinalizeStep(o) /\ session[o].transcript = << >>
           => /\ session'[o].transcript = ContextTurns(session[o].llm_context)
              /\ \A k \in 1..Len(session'[o].transcript) :
                   /\ session'[o].transcript[k].role # "system"
                   /\ session'[o].transcript[k] # SystemMessage]_vars

\* finalize recovered a transcript from a context log that also held the
\* system message and a turn without content
C25_Witness ==
    \E o \in Objs :
        /\ pipe[o] = "done"
        /\ cc_log[o] # << >>
        /\ cc_log[o][1].by = "finalize"
        /\ session[o].transcript # << >>
        /\ \A k \in 1..Len(session[o].transcript) :
             "timestamp" \notin DOMAIN session[o].transcript[k]
        /\ session[o].transcript = ContextTurns(session[o].llm_context)
        /\ Len(session[o].llm_context) > Len(session[o].transcript) + 1

\* C26: the background task handle is present only while the session is
\* active: no session in the completed partition holds one
C26_CompletedHasNoTaskHandle ==
    \A id \in DOMAIN completed_sessions :
        ~session[completed_sessions[id]].pipeline_background_task

\* hours since the end_time of the session completed under id
AgeHours(id) == now - session[completed_sessions[id]].end_time

\* C27: cleanup_old_completed_sessions(max_age) removes exactly the completed
\* sessions whose age since end_time exceeds max_age: the younger completed
\* sessions stay under their ids, and the active partition and every session
\* object are unchanged
C27_SweepRemovesExactlyOld ==
    [][\A a \in 0..MaxAge :
         cleanup_old_completed_sessions(a)
           => /\ DOMAIN completed_sessions' =
                   { id \in DOMAIN completed_sessions : AgeHours(id) <= a }
              /\ \A id \in DOMAIN completed_sessions' :
                   completed_sessions'[id] = completed_sessions[id]
              /\ active_sessions' = active_sessions
              /\ session' = session]_vars

\* a sweep has removed one session and kept a younger completed one
C27_Witness ==
    \E o1 \in 1..nobj, o2 \in 1..nobj :
        /\ session[o1].session_id # session[o2].session_id
        /\ session[o1].end_time # NoTime
        /\ ~Registered(session[o1].session_id)
        /\ session[o2].session_id \in DOMAIN completed_sessions
        /\ completed_sessions[session[o2].session_id] = o2
        /\ session[o2].end_time > session[o1].end_time

\* C28: a completed session whose retention window has elapsed is eventually
\* removed from the completed partition, by a maintenance pass that runs
\* periodically
C28_CompletedEventuallySwept ==
    \A id \in Ids :
        (id \in DOMAIN completed_sessions /\ AgeHours(id) > MaxAge)
          ~> (id \notin DOMAIN completed_sessions)

\* a configuration one of whose providers its factory refuses to create
UnsupportedProvider(config) ==
    \/ create_stt_service(config.stt) # "created"
    \/ create_tts_service(config.tts) # "created"
    \/ create_llm_service(config.llm) # "created"

\* C21: an unsupported provider selection is rejected when the pipeline is
\* assembled, before the chain task is launched: a session whose configuration
\* names a provider the factories reject never has a chain, so no such error
\* can come out of a running chain
C21_UnsupportedRejectedAtAssembly ==
    \A o \in Objs :
        UnsupportedProvider(session[o].config)
          => /\ chain[o] = "none"
             /\ pipe[o] \in {"created", "complete_call", "done"}

\* the build of a session with an unsupported provider has raised and the
\* pipeline task went through finalize without launching a chain
C21_Witness ==
    \E o \in Objs :
        /\ create_stt_service(session[o].config.stt) = "NotImplementedError"
        /\ pipe[o] = "done"
        /\ chain[o] = "none"
        /\ session[o].llm_context = << >>
        /\ session[o].metrics_saved

\* the step is one of finalize, end_call or mark_completed working for the
\* session id A
StepOn(A) ==
    \/ \E o \in 1..nobj :
         /\ session[o].session_id = A
         /\ FinalizeStep(o) \/ finalize_saved(o)
    \/ \E i \in Ends : ends'[i] # ends[i] /\ ends'[i].sid = A
    \/ mark_completed_direct(A)

\* the registry entries of id B and the objects of session B are as they were
SessionUntouched(B) ==
    /\ (B \in DOMAIN active_sessions') = (B \in DOMAIN active_sessions)
    /\ (B \in DOMAIN completed_sessions') = (B \in DOMAIN completed_sessions)
    /\ B \in DOMAIN active_sessions => active_sessions'[B] = active_sessions[B]
    /\ B \in DOMAIN completed_sessions
         => completed_sessions'[B] = completed_sessions[B]
    /\ \A o \in 1..nobj : session[o].session_id = B => session'[o] = session[o]

SessionPersisted(o, k) ==
    [session[o] EXCEPT !.duration_seconds = cc_log[o][k].duration_seconds,
                       !.transcript = cc_log[o][k].transcript]

\* C30: the cost breakdown end_call returns for a session equals the cost
\* breakdown computed and persisted for it at completion time, also when
\* characters and tokens were not metered and were estimated from the duration
C30_EndCostEqualsPersistedCost ==
    \A i \in Ends :
        /\ ends[i].pc = "returned"
        /\ ends[i].obj \in Objs
        => \A k \in 1..Len(cc_log[ends[i].obj]) :
             /\ cc_log[ends[i].obj][k].result
             /\ HasDuration(SessionPersisted(ends[i].obj, k))
             => ends[i].result.cost_breakdown =
                  calculate_cost_breakdown(SessionPersisted(ends[i].obj, k))

\* C31: when characters and tokens are not metered, completion estimates them
\* from the duration at 300 characters and 400 tokens per minute, the tokens
\* split 240 input / 160 output; for a duration of 600 seconds the stored cost
\* breakdown is the one computed from 3000 characters, 2400 input tokens and
\* 1600 output tokens
C31_EstimatesFromDuration ==
    /\ cc.pc = "returned"
    /\ cc.out.results_store.has_cost
    => LET d == cc.session.duration_seconds
           minutes == d \div 60
           u == estimated_usage(cc.session)
       IN  /\ u.total_chars = 300 * minutes
           /\ u.input_tokens + u.output_tokens = 400 * minutes
           /\ u.input_tokens = 240 * minutes
           /\ u.output_tokens = 160 * minutes
           /\ cc.out.results_store.total_cost_usd =
                calculate_call_cost(cc.session.transport, d, 300 * minutes,
                                    240 * minutes, 160 * minutes)
           /\ d = 600 =>
                cc.out.results_store.total_cost_usd =
                  calculate_call_cost(cc.session.transport, 600, 3000, 2400, 1600)

C31_Witness ==
    /\ cc.pc = "returned"
    /\ cc.out.results_store.has_cost
    /\ cc.session.duration_seconds = 600
    /\ estimated_usage(cc.session) =
         [total_chars |-> 3000, input_tokens |-> 2400, output_tokens |-> 1600]
    /\ cc.out.results_store.total_cost_usd =
         calculate_call_cost(cc.session.transport, 600, 3000, 2400, 1600)

\* C32: the executor's completion callback handles each outcome of the chain
\* task (success, fault, cancellation) by logging at most; no outcome makes an
\* exception leave the callback
C32_CallbackNeverRaises ==
    \A o \in Objs :
        /\ on_done_log[o] # "cancelled_error_escaped"
        /\ ChainExited(o) => on_done_log[o] \in {"silent", "pipeline_failed"}

\* the step in which PipelineExecutor.run of object o returns or raises to the
\* pipeline task awaiting it
ExecutorLeaves(o) == pipe[o] = "await_task" /\ pipe'[o] # "await_task"

\* C33: PipelineExecutor.run has stored the chain task's handle on the session
\* by the time it first suspends, so a chain task never exists without its
\* handle stored, and run returns or raises to its caller only after the chain
\* task has ended
C33_HandleStoredRunAwaitsChain ==
    /\ [](\A o \in Objs :
            (chain[o] # "none" \/ pipe[o] = "await_task")
               => session[o].pipeline_background_task)
    /\ [][\A o \in Objs : ExecutorLeaves(o) => ChainExited(o)]_vars

C33_Witness ==
    \E o \in Objs :
        /\ pipe[o] \in {"complete_call", "done"}
        /\ ChainExited(o)
        /\ session[o].pipeline_background_task

\* the step in which mark_completed works on the active session id: the id
\* leaves active_sessions or its object enters completed_sessions (create only
\* adds to active_sessions, the sweep only removes from completed_sessions)
MarkStep(id) ==
    /\ id \in DOMAIN active_sessions
    /\ \/ id \notin DOMAIN active_sessions'
       \/ /\ id \in DOMAIN completed_sessions'
          /\ completed_sessions'[id] = active_sessions[id]
          /\ ~(id \in DOMAIN completed_sessions
                 /\ completed_sessions[id] = active_sessions[id])

\* C34: mark_completed on an active session sets duration_seconds if it was
\* unset and moves the session to completed in one step, also with create,
\* mark_completed and the sweep called for the same id around it: the step
\* starts with the id active and ends with its object in completed and the id
\* no longer active, with no state between the two
C34_MarkCompletedAtomicMove ==
    [][\A id \in Ids :
         MarkStep(id) =>
           LET o == active_sessions[id]
           IN  /\ id \notin DOMAIN active_sessions'
               /\ id \in DOMAIN completed_sessions'
               /\ completed_sessions'[id] = o
               /\ session'[o].duration_seconds # NoTime
               /\ session'[o].end_time # NoTime
               /\ ~NoDuration(session[o])
                    => session'[o].duration_seconds = session[o].duration_seconds
               /\ mark_result' = "moved"]_vars

C34_Witness ==
    \E id \in Ids :
        /\ mark_result = "moved"
        /\ id \in DOMAIN completed_sessions
        /\ id \notin DOMAIN active_sessions
        /\ start[completed_sessions[id]] = "unborn"
        /\ session[completed_sessions[id]].duration_seconds = SecondsPerHour
        /\ session[completed_sessions[id]].end_time = now

\* a complete_call issued for object o returned True
WriteSucceeded(o) == \E k \in 1..Len(cc_log[o]) : cc_log[o][k].result

\* C35: metrics_saved is true only if a persistence write for the session
\* succeeded; when complete_call found no call record or the write failed,
\* metrics_saved stays false, so that a later completion attempt still writes
C35_SavedOnlyAfterSuccessfulWrite ==
    \A o \in Objs : session[o].metrics_saved => WriteSucceeded(o)

\* C36: once end_call has returned a result for a session, the session's chain
\* is not running and never starts: no session in completed_sessions has a
\* chain task that is running or a pipeline task that is still to launch one
C36_CompletedChainNotRunning ==
    \A id \in DOMAIN completed_sessions :
        LET o == completed_sessions[id]
        IN  /\ chain[o] \notin {"running", "cancelling"}
            /\ pipe[o] # "created"

\* the step in which end_call invocation i returns the metrics of a session it
\* found active (not through the already-completed branch)
EndReturnsActive(i) ==
    /\ ends[i].pc # "returned"
    /\ ends'[i].pc = "returned"
    /\ ends'[i].sid \in DOMAIN active_sessions
    /\ ends'[i].sid \notin DOMAIN completed_sessions

\* C37: when end_call returns a result for a session that was active, the
\* outcome has been persisted: metrics_saved is true at the return, also when
\* duration_seconds had already been set by the pipeline task's finalize
C37_EndReturnsAfterPersisting ==
    [][\A i \in Ends :
         EndReturnsActive(i) =>
           /\ session'[ends'[i].obj].metrics_saved
           /\ \E k \in 1..Len(cc_log'[ends'[i].obj]) :
                cc_log'[ends'[i].obj][k].result]_vars

\* the complete_call invocations that end_call issued for object o
EndWrites(o) == SelectSeq(cc_log[o], LAMBDA c : c.by = "end_call")

\* C38: two concurrent end_call invocations for the same active session issue
\* at most one persistence write between them, and both return a result and
\* neither raises: the mark_completed of the one that comes second finds the
\* session no longer active and does nothing
C38_ConcurrentEndsOneWrite ==
    /\ \A o \in Objs : Len(EndWrites(o)) <= 1
    /\ \A i \in Ends :
         /\ ends[i].pc # "raised"
         /\ ends[i].pc = "returned" => ends[i].result.status = "completed"

C38_Witness ==
    \E o \in Created :
        /\ \A i \in Ends : ends[i].pc = "returned" /\ ends[i].obj = o
        /\ mark_result = MarkInactive
        /\ chain[o] = "cancelled"
        /\ Len(cc_log[o]) = 1
        /\ \A i \in Ends : ends[i].result.status = "completed"

\* C39: every session in completed_sessions has end_time and duration_seconds
\* set, so the sweep's `if session.end_time` never passes one over: a completed
\* session older than max_age_hours is among those the sweep removes
C39_CompletedHaveEndTime ==
    \A id \in DOMAIN completed_sessions :
        LET s == session[completed_sessions[id]]
        IN  /\ s.end_time # NoTime
            /\ s.duration_seconds # NoTime
            /\ s.duration_seconds = (s.end_time - s.start_time) * SecondsPerHour
            /\ \A a \in 0..MaxAge : AgeHours(id) > a => id \in SweptIds(a)

C39_Witness ==
    \E id \in DOMAIN completed_sessions :
        /\ start[completed_sessions[id]] = "unborn"
        /\ mark_result = "moved"
        /\ session[completed_sessions[id]].end_time # NoTime
        /\ AgeHours(id) > 0
        /\ id \in SweptIds(0)

=============================================================================
